---- MODULE Spec2Model ----
(***************************************************************************)
(* TextAlchemy backend: the model-selection and request-fallback shim.     *)
(*                                                                         *)
(* Two backend variants exist in the repository:                           *)
(*   "plain"  - src/backend/server.js  (callGeminiAPI, no cache)           *)
(*   "cached" - src/unnamed/part_000   (ensureWorkingModel / callGemini,   *)
(*              process-wide cachedModel, model-listing fallback)          *)
(* A server process runs one of them; the variant is fixed in Init.        *)
(*                                                                         *)
(* A JavaScript handler runs without interruption from one await to the    *)
(* next, so every action below is one such run: it starts when a request   *)
(* or an awaited provider response arrives and ends at the next await on   *)
(* the network or at the HTTP response.                                    *)
(***************************************************************************)
EXTENDS Integers, Sequences, FiniteSets, TLC

\* ---------------------------------------------------------------- bounds
MaxConc == 2     \* request slots the server may hold at once
MaxFields == 2   \* text-bearing fields populated in one provider body
MaxListed == 2   \* entries in a model-listing response
MaxIssued == 3   \* backend requests the page issues in one run

\* ---------------------------------------------------------------- values
None == "none"              \* JavaScript null / undefined
Slots == 1..MaxConc

\* src/backend/server.js:15-18
GEMINI_MODELS == <<"gemini-pro:generateContent", "gemini-1.5-flash:generateContent">>

\* src/unnamed/part_000:22-28
CANDIDATE_MODELS ==
  <<"gemini-2.5-pro", "gemini-2.5-flash", "gemini-1.5-pro", "gemini-1.5-flash", "gemini-1.0">>

\* src/unnamed/part_000:34-37
endpoints == <<"v1beta/models", "v1/models">>

\* request bodies: the text and mode fields of req.body
ReqTexts == {None, "", "ok"}
ReqModes == {None, "", "formal", "casual", "poetic"}

\* texts a provider may generate
GenTexts == {"Hi there", "Hello"}

\* The places of a provider JSON body where generated text may sit.
\*   p1  candidates[0].content.parts[0].text          (alt1, alt3)
\*   p2  candidates[0].content[0].text                (alt2)
\*   p4  candidates[0].text                           (alt4)
\*   p5  output[0].content[0].text                    (alt5)
\*   p6  content[0].parts[0].text                     (alt6)
\*   p7  candidates[0].message.content.parts[0].text  (alt7)
\*   px  a place no variant looks at
Paths == {"p1", "p2", "p4", "p5", "p6", "p7", "px"}

JsonFields ==
  {f \in [Paths -> GenTexts \cup {""}] :
      Cardinality({p \in Paths : f[p] # ""}) <= MaxFields}

NoFields == [p \in Paths |-> ""]

\* What one outbound generateContent request may come back with:
\*   net   "throw": fetch rejected (network error, timeout); "http": a response
\*   ok    res.ok
\*   json  the raw body parses as JSON
\*   error the parsed body has an error member
\*   f     the text-bearing fields of the parsed body
Responses ==
  {[net |-> "throw", ok |-> FALSE, json |-> FALSE, error |-> FALSE, f |-> NoFields]}
  \cup {[net |-> "http", ok |-> o, json |-> FALSE, error |-> FALSE, f |-> NoFields] :
          o \in BOOLEAN}
  \cup [net : {"http"}, ok : BOOLEAN, json : {TRUE}, error : BOOLEAN, f : JsonFields]

\* ------------------------------------------------------ pure functions

\* a || b on strings: the first operand unless it is falsy
Or(a, b) == IF a # "" /\ a # None THEN a ELSE b

\* a validation that lets the empty string through
FalsyUndefinedOnly(v) == v = None

\* !v for the values a request field may hold
Falsy(v) == v = None \/ v = ""

\* src/backend/server.js:40  data?.candidates?.[0]?.content?.parts?.[0]?.text
extractPlain(f) == f["p1"]

\* src/unnamed/part_000:95-103  alt1 || alt2 || ... || alt7 || null
extractText(f) ==
  Or(f["p1"], Or(f["p2"], Or(f["p1"], Or(f["p4"], Or(f["p5"], Or(f["p6"], Or(f["p7"], "")))))))

\* tryModelGenerate without the "&& text" of line 105
tryModelGenerateOkOnly(resp) ==
  IF resp.net = "throw"
    THEN [ok |-> FALSE, text |-> "", error |-> "err.message"]
  ELSE IF ~resp.json
    THEN [ok |-> FALSE, text |-> "", error |-> "Invalid JSON response"]
  ELSE IF resp.ok
    THEN [ok |-> TRUE, text |-> extractText(resp.f), error |-> ""]
  ELSE [ok |-> FALSE, text |-> "", error |-> "No text found in response"]

\* src/unnamed/part_000:65-117  tryModelGenerate: { ok, text, error }
tryModelGenerate(resp) ==
  IF resp.net = "throw"
    THEN [ok |-> FALSE, text |-> "", error |-> "err.message"]
  ELSE IF ~resp.json
    THEN [ok |-> FALSE, text |-> "", error |-> "Invalid JSON response"]
  ELSE LET text == extractText(resp.f) IN
    IF resp.ok /\ text # ""
      THEN [ok |-> TRUE, text |-> text, error |-> ""]
    ELSE IF resp.error
      THEN [ok |-> FALSE, text |-> "", error |-> "data.error"]
    ELSE [ok |-> FALSE, text |-> "", error |-> "No text found in response"]

\* src/backend/server.js:25-46  one pass of the loop body of callGeminiAPI:
\* the text returned, or "" when the loop continues with the next model
tryPlain(resp) ==
  IF resp.net = "throw" THEN ""
  ELSE IF ~resp.ok THEN ""
  ELSE IF ~resp.json THEN ""
  ELSE extractPlain(resp.f)


\* What the text of a response amounts to for the variant that reads it
\* (res.ok, JSON.parse and the extraction of the text, as facts about the
\* response rather than as the code's verdict).
respClass(v, resp) ==
  IF resp.net = "throw" THEN "transport"
  ELSE IF ~resp.json THEN "invalid_json"
  ELSE IF ~resp.ok THEN "http_error"
  ELSE IF (IF v = "plain" THEN extractPlain(resp.f) ELSE extractText(resp.f)) = ""
    THEN "no_text"
  ELSE "success"

\* --- model listing (cached variant)

\* names the listing may hold; "" stands for a falsy entry (null)
ListedEntries == {"", "models/gemini-pro", "models/embedding-001"}

\* src/unnamed/part_000:138  /gemini/i.test(m?.name || m?.model || m?.id || "")
isGemini(m) == m \in {"models/gemini-pro"}

ListedSeqs == UNION {[1..n -> ListedEntries] : n \in 0..MaxListed}

\* What one GET of a listing endpoint may come back with:
\*   kind "nomodels": JSON with neither models nor model
\*        "modelobj": JSON with a model member only (data itself is returned)
\*        "models":   JSON with a models array
ListResponses ==
  {[net |-> "throw", json |-> FALSE, kind |-> "nomodels", models |-> <<>>],
   [net |-> "http", json |-> FALSE, kind |-> "nomodels", models |-> <<>>],
   [net |-> "http", json |-> TRUE, kind |-> "nomodels", models |-> <<>>],
   [net |-> "http", json |-> TRUE, kind |-> "modelobj", models |-> <<>>]}
  \cup {[net |-> "http", json |-> TRUE, kind |-> "models", models |-> m] : m \in ListedSeqs}

\* src/unnamed/part_000:40-58  one pass of the loop of listAvailableModels:
\* TRUE when the pass returns data.models || data, FALSE when the loop goes on
listReturns(lr) ==
  lr.net = "http" /\ lr.json /\ lr.kind \in {"models", "modelobj"}

\* src/unnamed/part_000:137-140  the id picked from the listing, "" when none
RECURSIVE findGemini(_)
findGemini(listed) ==
  IF listed = <<>> THEN ""
  ELSE IF isGemini(Head(listed)) THEN Head(listed)
  ELSE findGemini(Tail(listed))

pickListed(lr) ==
  IF lr.kind = "models" /\ Len(lr.models) > 0
    THEN Or(findGemini(lr.models), lr.models[1])
    ELSE ""

\* ---------------------------------------------------------------- state
VARIABLES
  variant,       \* which backend runs: "plain" or "cached"
  cachedModel,   \* src/unnamed/part_000:30  let cachedModel = null
  call,          \* one record per request slot
  succeeded,     \* the models that have answered a generateContent request
                 \* with HTTP success and an extractable text so far
  everFailed,    \* some generate call has thrown so far
  page           \* the page of src/frontend/script.js

vars == <<variant, cachedModel, call, succeeded, everFailed, page>>

\* a slot holding no request
Fresh ==
  [pc |-> "idle",        \* where the handler is suspended
   route |-> None, text |-> None, mode |-> None,   \* the request
   prompt |-> None,      \* the instruction template the prompt was built from
   idx |-> 0,            \* loop index (candidate or listing endpoint)
   sent |-> <<>>,        \* targets of the outbound requests, in order
   answered |-> 0,       \* how many of them have been answered
   last |-> None,        \* respClass of the latest generateContent response
   okAt |-> 0,           \* position in sent of the first successful response
   okText |-> "",        \* the text extracted from that response
   modelId |-> None,     \* what ensureWorkingModel returned
   startCache |-> None,  \* cachedModel when generate was called
   gen |-> "none",       \* generate: "none", "running", "returned", "threw"
   status |-> 0,         \* HTTP status of the response, 0 while unanswered
   result |-> ""]        \* the text in a 200 response

\* The page of src/frontend/script.js. Its two DOMContentLoaded handlers
\* (lines 2-172 and 174-249) keep their own lastInput and currentAction and
\* share the DOM: the input field, the loader and the output element.
\* A backend request of the page goes through two awaits: the fetch, then the
\* reading of the body (res.text() or res.json()).
NoRequest == [by |-> None, stage |-> "none", ok |-> FALSE]

\* src/frontend/script.js:19-24,175-176 and the initial DOM
PageInit ==
  [inputValue |-> "txt",        \* inputText.value (trimmed): SAMPLE at load
   lastInput1 |-> "", currentAction1 |-> "humanize",   \* first handler
   lastInput2 |-> "", currentAction2 |-> "humanize",   \* second handler
   loaderHidden |-> TRUE,       \* loader.classList has "hidden"
   output |-> [req |-> 0, what |-> "empty"],  \* what outputText shows, and
                                \* the request whose outcome it is
   issued |-> 0,                \* backend requests issued so far
   reqs |-> [i \in 1..MaxIssued |-> NoRequest]]

Init ==
  /\ variant \in {"plain", "cached"}
  /\ cachedModel = None
  /\ call = [s \in Slots |-> Fresh]
  /\ succeeded = {}
  /\ everFailed = FALSE
  /\ page = PageInit

\* ------------------------------------------------------------- helpers
Last(q) == q[Len(q)]

\* the observation of one generateContent response, kept with the call
Seen(c, resp) ==
  LET cls == respClass(variant, resp) IN
  [c EXCEPT !.last = cls,
            !.answered = c.answered + 1,
            !.okAt = IF c.okAt = 0 /\ cls = "success" THEN Len(c.sent) ELSE c.okAt,
            !.okText = IF c.okAt = 0 /\ cls = "success"
                         THEN (IF variant = "plain" THEN extractPlain(resp.f)
                                                    ELSE extractText(resp.f))
                         ELSE c.okText]

\* the handler's catch block: res.status(500).json(...)
\* src/backend/server.js:65-68, src/unnamed/part_000:173-176
respond500(c) == [c EXCEPT !.pc = "done", !.gen = "threw", !.status = 500]

\* res.json({ result }) / res.json({ original, humanized })
\* src/backend/server.js:64, src/unnamed/part_000:172
respond200(c, text) ==
  [c EXCEPT !.pc = "done", !.gen = "returned", !.status = 200, !.result = text]

\* res.status(400).json(...)
\* src/backend/server.js:59,90, src/unnamed/part_000:167,195
respond400(c) == [c EXCEPT !.pc = "done", !.status = 400]

\* ensureWorkingModel without the early return of line 121
cacheHitNever(cache) == FALSE

\* src/unnamed/part_000:121  if (cachedModel) return cachedModel;
cacheHit(cache) == cache # None

\* a store that records the head of the candidate list
cacheStoreFirst(cache, model) == CANDIDATE_MODELS[1]

\* src/unnamed/part_000:128,144  cachedModel = model
cacheStore(cache, model) == model

\* a resolver whose search skips the head of the candidate list
generateFromSecond(c) ==
  IF variant = "plain"
    THEN [c EXCEPT !.pc = "plain", !.gen = "running", !.idx = 2,
                   !.sent = <<GEMINI_MODELS[2]>>]
  ELSE IF cacheHit(cachedModel)
    THEN [c EXCEPT !.pc = "gen", !.gen = "running", !.startCache = cachedModel,
                   !.modelId = cachedModel, !.sent = <<cachedModel>>]
  ELSE [c EXCEPT !.pc = "probe", !.gen = "running", !.startCache = cachedModel,
                 !.idx = 2, !.sent = <<CANDIDATE_MODELS[2]>>]

\* a resolver that requests every candidate at once (parallel fan-out)
generateFanOut(c) ==
  IF variant = "plain"
    THEN [c EXCEPT !.pc = "plain", !.gen = "running", !.idx = 1,
                   !.sent = GEMINI_MODELS]
  ELSE [c EXCEPT !.pc = "probe", !.gen = "running", !.startCache = cachedModel,
                 !.idx = 1, !.sent = CANDIDATE_MODELS]

\* the call of the resolver up to its first await on the network
\* src/backend/server.js:20-30, src/unnamed/part_000:155-158,120-125
generate(c) ==
  IF variant = "plain"
    THEN [c EXCEPT !.pc = "plain", !.gen = "running", !.idx = 1,
                   !.sent = <<GEMINI_MODELS[1]>>]
  ELSE IF cacheHit(cachedModel)
    THEN [c EXCEPT !.pc = "gen", !.gen = "running", !.startCache = cachedModel,
                   !.modelId = cachedModel, !.sent = <<cachedModel>>]
  ELSE [c EXCEPT !.pc = "probe", !.gen = "running", !.startCache = cachedModel,
                 !.idx = 1, !.sent = <<CANDIDATE_MODELS[1]>>]

\* the bookkeeping of a step of slot s that consumes a generateContent response
Noted(s, resp) ==
  /\ succeeded' = IF respClass(variant, resp) = "success"
                    THEN succeeded \cup {Last(call[s].sent)}
                    ELSE succeeded
  /\ everFailed' = (everFailed \/ call'[s].gen = "threw")

\* ------------------------------------------------------------- actions

\* no other request is being handled
Quiet(s) == \A o \in Slots \ {s} : call[o].pc = "idle"

\* A request may arrive whenever its slot is free; with alone = TRUE the
\* clients send one request at a time and wait for the answer.

\* POST /api/humanize   src/backend/server.js:56-69, src/unnamed/part_000:165-177
humanize(s, text, alone) ==
  /\ call[s].pc = "idle"
  /\ alone => Quiet(s)
  /\ LET c == [call[s] EXCEPT !.route = "humanize", !.text = text] IN
       call' = [call EXCEPT ![s] =
                  IF Falsy(text) THEN respond400(c)
                  ELSE generate([c EXCEPT !.prompt = "humanize"])]
  /\ UNCHANGED <<variant, cachedModel, succeeded, everFailed, page>>

\* POST /api/summarize  src/backend/server.js:71-84, src/unnamed/part_000:179-191
summarize(s, text, alone) ==
  /\ call[s].pc = "idle"
  /\ alone => Quiet(s)
  /\ LET c == [call[s] EXCEPT !.route = "summarize", !.text = text] IN
       call' = [call EXCEPT ![s] =
                  IF Falsy(text) THEN respond400(c)
                  ELSE generate([c EXCEPT !.prompt = "summarize"])]
  /\ UNCHANGED <<variant, cachedModel, succeeded, everFailed, page>>

\* a tone that falls back to formal
toneOfFormalDefault(mode) == IF mode = "casual" THEN "casual" ELSE "formal"

\* src/backend/server.js:92, src/unnamed/part_000:198
\* const tone = mode === "formal" ? "formal" : "casual"
toneOf(mode) == IF mode = "formal" THEN "formal" ELSE "casual"

\* POST /api/tone       src/backend/server.js:86-101, src/unnamed/part_000:193-206
tone(s, text, mode, alone) ==
  /\ call[s].pc = "idle"
  /\ alone => Quiet(s)
  /\ LET c == [call[s] EXCEPT !.route = "tone", !.text = text, !.mode = mode] IN
       call' = [call EXCEPT ![s] =
                  IF Falsy(text) \/ Falsy(mode) THEN respond400(c)
                  ELSE generate([c EXCEPT !.prompt = toneOf(mode)])]
  /\ UNCHANGED <<variant, cachedModel, succeeded, everFailed, page>>

\* callGeminiAPI resumes with the response of GEMINI_MODELS[idx]
\* src/backend/server.js:21-52 and the handler's res.json / catch
callGeminiAPI(s, resp) ==
  /\ call[s].pc = "plain"
  /\ LET c == Seen(call[s], resp)
         result == tryPlain(resp)
     IN call' = [call EXCEPT ![s] =
          IF result # "" THEN respond200(c, result)
          ELSE IF c.idx < Len(GEMINI_MODELS)
            THEN [c EXCEPT !.idx = c.idx + 1,
                           !.sent = Append(c.sent, GEMINI_MODELS[c.idx + 1])]
          ELSE respond500(c)]
  /\ Noted(s, resp)
  /\ UNCHANGED <<variant, cachedModel, page>>

\* ensureWorkingModel resumes with the attempt on CANDIDATE_MODELS[idx]
\* src/unnamed/part_000:124-136 (and callGemini:158 when the attempt is ok)
ensureWorkingModel(s, resp) ==
  /\ call[s].pc = "probe"
  /\ LET c == Seen(call[s], resp)
         model == CANDIDATE_MODELS[c.idx]
         attempt == tryModelGenerate(resp)
     IN IF attempt.ok
          THEN /\ cachedModel' = cacheStore(cachedModel, model)
               /\ call' = [call EXCEPT ![s] =
                    [c EXCEPT !.pc = "gen", !.modelId = model,
                              !.sent = Append(c.sent, model)]]
          ELSE /\ UNCHANGED cachedModel
               /\ call' = [call EXCEPT ![s] =
                    IF c.idx < Len(CANDIDATE_MODELS)
                      THEN [c EXCEPT !.idx = c.idx + 1,
                                     !.sent = Append(c.sent, CANDIDATE_MODELS[c.idx + 1])]
                      ELSE [c EXCEPT !.pc = "list", !.idx = 1,
                                     !.sent = Append(c.sent, endpoints[1])]]
  /\ Noted(s, resp)
  /\ UNCHANGED <<variant, page>>

\* listAvailableModels resumes with the response of endpoints[idx]
\* src/unnamed/part_000:39-62, then ensureWorkingModel:137-151
listAvailableModels(s, lr) ==
  /\ call[s].pc = "list"
  /\ LET c == [call[s] EXCEPT !.answered = @ + 1]
         id == pickListed(lr)
     IN call' = [call EXCEPT ![s] =
          IF listReturns(lr)
            THEN (IF id # ""
                    THEN [c EXCEPT !.pc = "probeListed", !.sent = Append(c.sent, id)]
                    ELSE respond500(c))
          ELSE IF c.idx < Len(endpoints)
            THEN [c EXCEPT !.idx = c.idx + 1,
                           !.sent = Append(c.sent, endpoints[c.idx + 1])]
          ELSE respond500(c)]
  /\ everFailed' = (everFailed \/ call'[s].gen = "threw")
  /\ UNCHANGED <<variant, cachedModel, succeeded, page>>

\* ensureWorkingModel resumes with the attempt on the listed model
\* src/unnamed/part_000:142-151 (and callGemini:158 when the attempt is ok)
tryListedModel(s, resp) ==
  /\ call[s].pc = "probeListed"
  /\ LET c == Seen(call[s], resp)
         id == Last(c.sent)
         attempt2 == tryModelGenerate(resp)
     IN IF attempt2.ok
          THEN /\ cachedModel' = cacheStore(cachedModel, id)
               /\ call' = [call EXCEPT ![s] =
                    [c EXCEPT !.pc = "gen", !.modelId = id,
                              !.sent = Append(c.sent, id)]]
          ELSE /\ UNCHANGED cachedModel
               /\ call' = [call EXCEPT ![s] = respond500(c)]
  /\ Noted(s, resp)
  /\ UNCHANGED <<variant, page>>

\* callGemini resumes with the result of tryModelGenerate(modelId, prompt)
\* src/unnamed/part_000:158-160 and the handler's res.json / catch
callGemini(s, resp) ==
  /\ call[s].pc = "gen"
  /\ LET c == Seen(call[s], resp)
         result == tryModelGenerate(resp)
     IN call' = [call EXCEPT ![s] =
          IF result.ok THEN respond200(c, result.text) ELSE respond500(c)]
  /\ Noted(s, resp)
  /\ UNCHANGED <<variant, cachedModel, page>>

\* the response has gone out; the slot can take the next request
Retire(s) ==
  /\ call[s].pc = "done"
  /\ call' = [call EXCEPT ![s] = Fresh]
  /\ UNCHANGED <<variant, cachedModel, succeeded, everFailed, page>>

\* ------------------------------------------------------ specifications

\* requests arrive one after another
Next ==
  \/ \E s \in Slots, t \in ReqTexts : humanize(s, t, TRUE)
  \/ \E s \in Slots, t \in ReqTexts : summarize(s, t, TRUE)
  \/ \E s \in Slots, t \in ReqTexts, m \in ReqModes : tone(s, t, m, TRUE)
  \/ \E s \in Slots, r \in Responses : callGeminiAPI(s, r)
  \/ \E s \in Slots, r \in Responses : ensureWorkingModel(s, r)
  \/ \E s \in Slots, lr \in ListResponses : listAvailableModels(s, lr)
  \/ \E s \in Slots, r \in Responses : tryListedModel(s, r)
  \/ \E s \in Slots, r \in Responses : callGemini(s, r)
  \/ \E s \in Slots : Retire(s)

Spec == Init /\ [][Next]_vars

\* --- the page

InputValues == {"", "txt"}
Actions == {"humanize", "summarize", "formal", "casual"}

\* what the awaited fetch of the page may settle with
FetchOutcomes == {"reject", "ok", "not_ok"}
\* what the awaited body may settle with: a body with a text, a body without
\* one, or a rejection (res.json() on a body that is not JSON)
BodyOutcomes == {"text", "no_text", "reject"}

\* src/frontend/script.js:46-51  showLoader
showLoader(pg) ==
  [pg EXCEPT !.loaderHidden = FALSE, !.output = [req |-> 0, what |-> "empty"]]

\* src/frontend/script.js:52-55  hideLoader
hideLoader(pg) == [pg EXCEPT !.loaderHidden = TRUE]

\* the fetch of a handler goes out as request number issued + 1
issue(pg, by) ==
  [pg EXCEPT !.issued = pg.issued + 1,
             !.reqs[pg.issued + 1] = [by |-> by, stage |-> "fetch", ok |-> FALSE]]

\* src/frontend/script.js:80-102  processText up to its await fetch
processText(pg) ==
  IF pg.inputValue = "" THEN pg
  ELSE issue(showLoader([pg EXCEPT !.lastInput1 = pg.inputValue]), "processText")

\* src/frontend/script.js:202-218  runAI up to its await fetch
runAI(pg, text) ==
  issue([pg EXCEPT !.lastInput2 = text, !.loaderHidden = FALSE,
                   !.output = [req |-> 0, what |-> "empty"]], "runAI")

\* input event on the text field
typeInput(v) ==
  /\ page' = [page EXCEPT !.inputValue = v]
  /\ UNCHANGED <<variant, cachedModel, call, succeeded, everFailed>>

\* click on the process button   src/frontend/script.js:138
clickProcess ==
  /\ page.inputValue # "" => page.issued < MaxIssued
  /\ page' = processText(page)
  /\ UNCHANGED <<variant, cachedModel, call, succeeded, everFailed>>

\* click on a tab: both handlers run   src/frontend/script.js:37-43,193-200
clickTab(a) ==
  /\ page.inputValue # "" => page.issued < MaxIssued
  /\ LET pg == [page EXCEPT !.currentAction1 = a, !.currentAction2 = a] IN
       page' = IF pg.inputValue # "" THEN runAI(pg, pg.inputValue) ELSE pg
  /\ UNCHANGED <<variant, cachedModel, call, succeeded, everFailed>>

\* click on the regenerate button: both handlers run
\* src/frontend/script.js:139-143,232-235
clickRegenerate ==
  /\ page.issued + (IF page.lastInput1 = "" THEN 0 ELSE 1)
                  + (IF page.lastInput2 = "" THEN 0 ELSE 1) <= MaxIssued
  /\ LET pg1 == IF page.lastInput1 = "" THEN page
                ELSE processText([page EXCEPT !.inputValue = page.lastInput1])
         pg2 == IF pg1.lastInput2 = "" THEN pg1 ELSE runAI(pg1, pg1.lastInput2)
     IN page' = pg2
  /\ UNCHANGED <<variant, cachedModel, call, succeeded, everFailed>>

\* the fetch of request i settles
\* src/frontend/script.js:98-110,130-134 (processText), 214-221,224-229 (runAI)
fetchSettles(i, outcome) ==
  /\ page.reqs[i].stage = "fetch"
  /\ page' =
       IF outcome = "reject"
         THEN [hideLoader(page) EXCEPT
                 !.reqs[i].stage = "done",
                 !.output = [req |-> i,
                             what |-> IF page.reqs[i].by = "processText"
                                        THEN "unreachable" ELSE "error"]]
         ELSE [page EXCEPT !.reqs[i].stage = "body",
                           !.reqs[i].ok = (outcome = "ok")]
  /\ UNCHANGED <<variant, cachedModel, call, succeeded, everFailed>>

\* the body of request i settles
\* src/frontend/script.js:104-134 (processText), 220-229 (runAI)
bodySettles(i, body) ==
  /\ page.reqs[i].stage = "body"
  /\ LET r == page.reqs[i]
         what == IF r.by = "processText"
                   THEN (IF body = "reject" THEN "unreachable"
                         ELSE IF ~r.ok THEN "server_error"
                         ELSE IF body = "no_text" THEN "no_text"
                         ELSE "text")
                   ELSE (IF body = "reject" \/ ~r.ok THEN "error" ELSE "text")
     IN page' = [hideLoader(page) EXCEPT
                   !.reqs[i].stage = "done",
                   !.output = [req |-> i, what |-> what]]
  /\ UNCHANGED <<variant, cachedModel, call, succeeded, everFailed>>

PageNext ==
  \/ \E v \in InputValues : typeInput(v)
  \/ clickProcess
  \/ \E a \in Actions : clickTab(a)
  \/ clickRegenerate
  \/ \E i \in 1..MaxIssued, o \in FetchOutcomes : fetchSettles(i, o)
  \/ \E i \in 1..MaxIssued, b \in BodyOutcomes : bodySettles(i, b)

PageSpec == Init /\ [][PageNext]_vars

\* --- a provider that may stay silent
\* A generateContent request of the cached variant carries timeout: 30000
\* (src/unnamed/part_000:78): a silent provider makes that fetch reject, which
\* is the "throw" response above. The fetch of callGeminiAPI
\* (src/backend/server.js:26-30) and the fetch of listAvailableModels
\* (src/unnamed/part_000:41-44) carry no timeout: when the provider never
\* answers, the await never resumes.
providerHangs(s) ==
  /\ call[s].pc \in {"plain", "list"}
  /\ call' = [call EXCEPT ![s].pc = "hung"]
  /\ UNCHANGED <<variant, cachedModel, succeeded, everFailed, page>>

FairNext ==
  \/ \E s \in Slots, t \in ReqTexts : humanize(s, t, TRUE)
  \/ \E s \in Slots, t \in ReqTexts : summarize(s, t, TRUE)
  \/ \E s \in Slots, t \in ReqTexts, m \in ReqModes : tone(s, t, m, TRUE)
  \/ \E s \in Slots, r \in Responses : callGeminiAPI(s, r)
  \/ \E s \in Slots, r \in Responses : ensureWorkingModel(s, r)
  \/ \E s \in Slots, lr \in ListResponses : listAvailableModels(s, lr)
  \/ \E s \in Slots, r \in Responses : tryListedModel(s, r)
  \/ \E s \in Slots, r \in Responses : callGemini(s, r)
  \/ \E s \in Slots : Retire(s)
  \/ \E s \in Slots : providerHangs(s)

\* Every request that is not hung is answered (by the provider or by its
\* timeout), and the event loop resumes the handler that awaits the answer.
FairSpec ==
  /\ Init /\ [][FairNext]_vars
  /\ \A s \in Slots :
       /\ WF_vars(\E r \in Responses : callGeminiAPI(s, r))
       /\ WF_vars(\E r \in Responses : ensureWorkingModel(s, r))
       /\ WF_vars(\E lr \in ListResponses : listAvailableModels(s, lr))
       /\ WF_vars(\E r \in Responses : tryListedModel(s, r))
       /\ WF_vars(\E r \in Responses : callGemini(s, r))

\* --- concurrent requests against the cached variant: handlers interleave at
\* every await. The prompt does not influence the resolver, so one route and
\* one request body are used, and one response of each kind the resolver
\* tells apart (attempt.ok or not).
ConcResponses ==
  {r \in Responses :
     \/ r.net = "throw"
     \/ r.net = "http" /\ r.ok /\ r.json /\ ~r.error
        /\ r.f = [NoFields EXCEPT !["p1"] = "Hi there"]}

ConcInit == Init /\ variant = "cached"

ConcNext ==
  \/ \E s \in Slots : humanize(s, "ok", FALSE)
  \/ \E s \in Slots, r \in ConcResponses : ensureWorkingModel(s, r)
  \/ \E s \in Slots, lr \in ListResponses : listAvailableModels(s, lr)
  \/ \E s \in Slots, r \in ConcResponses : tryListedModel(s, r)
  \/ \E s \in Slots, r \in ConcResponses : callGemini(s, r)
  \/ \E s \in Slots : Retire(s)

ConcSpec == ConcInit /\ [][ConcNext]_vars

\* ---------------------------------------------------------------- claims

\* the candidate list of the running variant, in priority order
Candidates == IF variant = "plain" THEN GEMINI_MODELS ELSE CANDIDATE_MODELS

\* the targets a call has requested so far
Requested(c) == {c.sent[i] : i \in 1..Len(c.sent)}

\* candidates the call has not requested
Untried(c) == {Candidates[i] : i \in 1..Len(Candidates)} \ Requested(c)

\* C1 (as claimed): first success wins. When some model attempt of a generate
\* call came back with HTTP success and an extractable text, the call returns
\* that text, and nothing but the successful model is requested after it.
C1_FirstSuccessWins ==
  \A s \in Slots :
    LET c == call[s] IN
      c.okAt > 0 =>
        /\ \A i \in c.okAt..Len(c.sent) : c.sent[i] = c.sent[c.okAt]
        /\ c.pc = "done" => c.gen = "returned" /\ c.result = c.okText

\* C2: when every attempt of a generate call has failed and nothing is left to
\* try, generate has thrown and the handler has answered 500; a call whose
\* candidates have all failed is never answered 200, and it is unanswered only
\* while the listing fallback is still in flight.
C2_ExhaustionIs500 ==
  \A s \in Slots :
    LET c == call[s] IN
      /\ (c.pc = "done" /\ c.gen # "none" /\ c.okAt = 0) =>
            c.gen = "threw" /\ c.status = 500
      /\ (c.gen # "none" /\ c.okAt = 0 /\ Untried(c) = {}
            /\ ~(c.pc \in {"plain", "probe"})) =>
            /\ c.status \in {0, 500}
            /\ c.status = 0 => c.pc \in {"list", "probeListed"}
      /\ c.gen = "threw" => c.status = 500

\* C2 witness: the cached variant has tried all candidates, the listing and
\* the listed model, everything failed, and the request was answered 500.
C2_Witness ==
  \E s \in Slots :
    LET c == call[s] IN
      /\ variant = "cached" /\ c.pc = "done" /\ c.status = 500 /\ c.okAt = 0
      /\ Len(c.sent) = Len(CANDIDATE_MODELS) + 2
      /\ isGemini(Last(c.sent))

\* C3 (as claimed): a handler answers 500 only when every model of the
\* candidate list (and, in the cached variant, the listing fallback) was
\* attempted in that request and none succeeded.
C3_Only500OnExhaustion ==
  \A s \in Slots :
    LET c == call[s] IN
      c.status = 500 =>
        /\ Untried(c) = {}
        /\ c.okAt = 0
        /\ variant = "cached" => endpoints[1] \in Requested(c)

\* C4 (as claimed): after a response with HTTP success in which no known
\* shape yields text, the call has not returned, it has failed only if no
\* candidate is left untried, and otherwise it has moved on to the next
\* candidate in priority order.
C4_NoTextAdvances ==
  \A s \in Slots :
    LET c == call[s] IN
      c.last = "no_text" =>
        /\ c.status # 200
        /\ c.status = 500 => Untried(c) = {}
        /\ (c.status = 0 /\ Len(c.sent) <= Len(Candidates)) =>
              c.sent = SubSeq(Candidates, 1, Len(c.sent))

\* C5 (as claimed): after a response whose body is not valid JSON, whichever
\* attempt of the call it answers, generate has not thrown unless no candidate
\* is left untried, and otherwise it has moved on to the next candidate.
C5_BadJsonAdvances ==
  \A s \in Slots :
    LET c == call[s] IN
      c.last = "invalid_json" =>
        /\ c.gen = "threw" => Untried(c) = {}
        /\ (c.gen = "running" /\ Len(c.sent) <= Len(Candidates)) =>
              c.sent = SubSeq(Candidates, 1, Len(c.sent))

\* C6 (as claimed): after a transport-level exception on one request, the
\* exception has not escaped generate while untried candidates remain; the
\* loop has moved on to the next candidate.
C6_TransportErrorAdvances ==
  \A s \in Slots :
    LET c == call[s] IN
      c.last = "transport" =>
        /\ (c.gen = "threw" \/ c.status = 500) => Untried(c) = {}
        /\ (c.pc # "done" /\ Len(c.sent) <= Len(Candidates)) =>
              c.sent = SubSeq(Candidates, 1, Len(c.sent))

\* C7: a humanize or summarize request without text, and a tone request
\* without text or without mode, is answered 400 and the resolver is never
\* called for it: no outbound request is sent, whatever the cache holds.
C7_ValidationIs400 ==
  \A s \in Slots :
    LET c == call[s] IN
      (\/ c.route \in {"humanize", "summarize", "tone"} /\ c.text \in {None, ""}
       \/ c.route = "tone" /\ c.mode \in {None, ""}) =>
        /\ c.pc = "done" /\ c.status = 400
        /\ c.gen = "none" /\ c.sent = <<>>

\* C7 witness: with a model already cached, a tone request that has a text
\* but no mode has been answered 400.
C7_Witness ==
  \E s \in Slots :
    /\ cachedModel # None
    /\ call[s].route = "tone" /\ call[s].text = "ok" /\ call[s].mode = None
    /\ call[s].status = 400

C10_WriteOnce == [][cachedModel # None => cachedModel' = cachedModel]_vars

\* C11: under any interleaving of overlapping generate calls, cachedModel is
\* empty or holds one model identifier that has already answered a generation
\* attempt with HTTP success and an extracted text.
C11_CacheHoldsProvenModel ==
  cachedModel = None \/ cachedModel \in succeeded

\* C11 witness: two first calls overlapped and each resolved a different
\* model; the cache holds one of them.
C11_Witness ==
  /\ cachedModel # None
  /\ Cardinality(succeeded) >= 2
  /\ \E s, o \in Slots :
       /\ s # o
       /\ call[s].startCache = None /\ call[s].okAt > 0
       /\ call[o].startCache = None /\ call[o].okAt > 0
       /\ call[s].modelId # call[o].modelId

\* C12: the outbound requests of one call are strictly sequential, and a call
\* that searches tries the candidates in the priority order of the list: at
\* most one request is unanswered, one is unanswered exactly while the call is
\* suspended, the requests up to the first success are the head of the
\* candidate list, and after a success no other candidate is requested.
C12_OneAtATimeInOrder ==
  \A s \in Slots :
    LET c == call[s]
        n == IF Len(c.sent) < Len(Candidates) THEN Len(c.sent) ELSE Len(Candidates)
        k == IF c.okAt > 0 /\ c.okAt < n THEN c.okAt ELSE n
    IN /\ Len(c.sent) - c.answered \in {0, 1}
       /\ (Len(c.sent) - c.answered = 1) <=> (c.pc \notin {"idle", "done"})
       /\ (c.gen # "none" /\ c.startCache = None) =>
             /\ SubSeq(c.sent, 1, k) = SubSeq(Candidates, 1, k)
             /\ c.okAt > 0 => \A j \in c.okAt..Len(c.sent) : c.sent[j] = c.sent[c.okAt]

\* C12 witness: the first three candidates failed one after another and the
\* fourth is being tried.
C12_Witness ==
  \E s \in Slots :
    /\ call[s].pc = "probe" /\ call[s].answered = 3 /\ call[s].okAt = 0
    /\ call[s].sent = SubSeq(CANDIDATE_MODELS, 1, 4)

\* C13 (as claimed): every generate call that has started eventually returns
\* or throws, even when a provider never answers.
C13_GenerateTerminates ==
  \A s \in Slots :
    (call[s].gen = "running") ~> (call[s].gen \in {"returned", "threw"})

\* C14 (as claimed): once a response of a call has HTTP success and an
\* extracted text, the call sends no further generation request, no model is
\* requested twice in the call, and the text returned is the text of that
\* response.
C14_StopsAtFirstSuccess ==
  \A s \in Slots :
    LET c == call[s] IN
      /\ c.okAt > 0 => Len(c.sent) = c.okAt
      /\ \A i, j \in 1..Len(c.sent) : i # j => c.sent[i] # c.sent[j]
      /\ (c.okAt > 0 /\ c.gen = "returned") => c.result = c.okText

\* C15 (as claimed): a generate call that has thrown has left cachedModel as
\* it was when the call started.
C15_FailureKeepsCache ==
  \A s \in Slots :
    call[s].gen = "threw" => cachedModel = call[s].startCache

\* C16 (as claimed): a listing endpoint is requested only after every
\* candidate of the list was requested, in order, and failed; and a call that
\* has failed has requested generation from the listed model at most once.
C16_ListingIsLastResort ==
  \A s \in Slots :
    LET c == call[s]
        n == Len(CANDIDATE_MODELS)
        lists == {endpoints[e] : e \in 1..Len(endpoints)}
    IN /\ \A i \in 1..Len(c.sent) :
            c.sent[i] \in lists =>
              /\ i > n
              /\ SubSeq(c.sent, 1, n) = CANDIDATE_MODELS
              /\ c.okAt = 0 \/ c.okAt > i
       /\ (c.gen = "threw" /\ \E i \in 1..Len(c.sent) : c.sent[i] \in lists) =>
            Cardinality({j \in 1..Len(c.sent) : j > n /\ c.sent[j] \notin lists}) <= 1

\* C17: a generate call that starts without a Resolved Model sends its first
\* request to the head of the candidate list, whatever happened to the calls
\* before it.
C17_SearchStartsAtFirst ==
  \A s \in Slots :
    LET c == call[s] IN
      (c.gen # "none" /\ c.startCache = None) =>
        /\ Len(c.sent) >= 1
        /\ c.sent[1] = Candidates[1]

\* C17 witness: after an earlier call of the uncached variant had thrown, a
\* later call started from the first candidate and returned text.
C17_Witness ==
  \E s \in Slots :
    /\ variant = "plain" /\ everFailed
    /\ call[s].gen = "returned"
    /\ call[s].sent[1] = GEMINI_MODELS[1]

\* C20: a tone request with a text and any non-empty mode reaches the
\* resolver, with the formal template exactly when mode is "formal" and the
\* casual template otherwise; a tone request is answered 400 only when its
\* text or its mode is missing.
C20_ToneTemplate ==
  \A s \in Slots :
    LET c == call[s] IN
      c.route = "tone" =>
        /\ (c.text \notin {None, ""} /\ c.mode \notin {None, ""}) =>
              /\ c.gen # "none" /\ Len(c.sent) >= 1
              /\ c.prompt = IF c.mode = "formal" THEN "formal" ELSE "casual"
        /\ c.status = 400 => (c.text \in {None, ""} \/ c.mode \in {None, ""})

\* C20 witness: a tone request with the mode "poetic" was rewritten with the
\* casual template and answered 200.
C20_Witness ==
  \E s \in Slots :
    /\ call[s].route = "tone" /\ call[s].mode = "poetic"
    /\ call[s].prompt = "casual" /\ call[s].status = 200

\* the requests of the page that have not completed
InFlight == {i \in 1..MaxIssued : page.reqs[i].stage \in {"fetch", "body"}}

\* C18 (as claimed): the loader is visible whenever a backend request of the
\* page is in flight, and hidden once all issued requests have completed.
C18_LoaderWhileInFlight ==
  /\ InFlight # {} => ~page.loaderHidden
  /\ (InFlight = {} /\ page.issued > 0) => page.loaderHidden

\* C19 (as claimed): once all requests the page has issued have completed,
\* the output element shows the outcome of the most recently issued one.
C19_LatestResultShown ==
  (page.issued > 0 /\ InFlight = {}) => page.output.req = page.issued

TypeOK ==
  /\ variant \in {"plain", "cached"}
  /\ \A s \in Slots : call[s].status \in {0, 200, 400, 500}

====
